---- MODULE Spec2Model ----
(***************************************************************************)
(* Handle bridge of PortalScene_JNI.h: PortalScene::jptr wraps a           *)
(* std::shared_ptr<VROPortal> into a heap-allocated PersistentRef and      *)
(* returns its address as a VRO_REF; PortalScene::native turns a VRO_REF   *)
(* back into the PersistentRef and copies its shared_ptr out.              *)
(*                                                                         *)
(* The model is sequential (one call at a time, the caller serialises),    *)
(* and each call is split at the points where the reference count moves.   *)
(***************************************************************************)
EXTENDS Integers, Sequences, FiniteSets, Bags, TLC

\* ---------------------------------------------------------------- bounds
NumObjs == 2        \* scene objects (VROPortal instances) the engine owns
NumSlots == 2       \* heap blocks the allocator can hand out at once
MaxReturned == 2    \* references returned by native that callers hold at once

\* Pointer and handle widths, scaled down (TLC's integers do not hold 2^64).
\* intptr_t has the pointer's width; VRO_REF is at least as wide.
PtrBits == 3
RefBits == 4

Objs == 1..NumObjs
NoObj == 0          \* an empty shared_ptr
Free == -1          \* a heap block that was never allocated
Freed == -2         \* a heap block whose PersistentRef has been deleted
Pending == -(2^RefBits)  \* no VRO_REF value: the handle of a jptr call that has not returned yet

\* Addresses operator new can return: non-null, and some of them with the top
\* bit set, so that they are negative as an intptr_t.
HeapAddrs == {2^(PtrBits - 1) - 2 + k : k \in 1..NumSlots}

\* ------------------------------------------------------------ conversions
\* reinterpret_cast<intptr_t>(pointer): the same bits, read as a signed number.
ToIntPtr(a) == IF a >= 2^(PtrBits - 1) THEN a - 2^PtrBits ELSE a

\* A handle that keeps fewer bits than the pointer has (a handle type narrower
\* than intptr_t).
ToRefNarrow(i) == ((i + 2^(PtrBits - 2)) % 2^(PtrBits - 1)) - 2^(PtrBits - 2)

\* The intptr_t returned as a VRO_REF: converted to the signed RefBits-wide type.
ToRef(i) == ((i + 2^(RefBits - 1)) % 2^RefBits) - 2^(RefBits - 1)

\* A cast that keeps the sign of the handle in the address.
FromRefSigned(r) == r

\* reinterpret_cast<PersistentRef<VROPortal> *>(ptr): the low PtrBits bits.
FromRef(r) == r % 2^PtrBits

\* Values the host runtime can pass to native: every handle jptr can return,
\* zero, and a forged value that is no PersistentRef's address.
HandleInputs == {ToRef(ToIntPtr(a)) : a \in HeapAddrs} \cup {0, 1}

VARIABLES
    useCount,       \* [Objs -> Nat]: use_count of each object's control block
    destroyed,      \* [Objs -> BOOLEAN]: the VROPortal has been deleted
    nativeRefs,     \* [Objs -> Nat]: shared_ptrs the engine holds
    returnedRefs,   \* [Objs -> Nat]: shared_ptrs returned by native, still held
    holders,        \* [HeapAddrs -> Objs \cup {NoObj, Free, Freed}]: the heap
    hostHandles,    \* bag of [h, obj]: handles the host runtime holds
    pc,             \* where the current call stands
    shared_portal,  \* jptr's by-value parameter
    native_portal,  \* jptr's local: the new PersistentRef's address
    ptr,            \* native's parameter
    persistentPortal, \* native's local: the address cast from ptr
    fault,          \* a destroyed holder or object has been accessed
    misused,        \* native has been called with a handle the host does not hold
    last,           \* observer: the bridge call made last, if nothing followed it
    scenario        \* observer: how far the calls made last follow the script

vars == <<useCount, destroyed, nativeRefs, returnedRefs, holders, hostHandles,
          pc, shared_portal, native_portal, ptr, persistentPortal,
          fault, misused, last, scenario>>

\* ------------------------------------------------------- shared_ptr steps
\* Copy-constructing a shared_ptr: use_count + 1 (nothing for an empty one).
CopyRef(uc, o) == IF o \in Objs THEN [uc EXCEPT ![o] = @ + 1] ELSE uc

\* A shared_ptr destructor that forgets to give its reference back.
DropRefLeak(uc, o) == uc

\* A reference given back twice (a reset followed by the destructor).
DropRefTwice(uc, o) == IF o \in Objs THEN [uc EXCEPT ![o] = @ - 2] ELSE uc

\* Destroying a shared_ptr: use_count - 1.
DropRef(uc, o) == IF o \in Objs THEN [uc EXCEPT ![o] = @ - 1] ELSE uc

\* A release that deletes the object while one reference is still out.
DeletedEarly(ds, uc, o) ==
    IF o \in Objs /\ uc[o] <= 1 THEN [ds EXCEPT ![o] = TRUE] ELSE ds

\* The object is deleted by the destructor that takes use_count to zero.
Deleted(ds, uc, o) ==
    IF o \in Objs /\ uc[o] = 0 THEN [ds EXCEPT ![o] = TRUE] ELSE ds

\* PersistentRef<T>'s constructor keeps a copy of the shared_ptr it is given.
PersistentRefCtor(uc, o) == CopyRef(uc, o)

\* PersistentRef<T>::get() hands out the shared_ptr it keeps and leaves the
\* PersistentRef as it is.
PersistentRefGet(hs, a) == hs[a]

LiveAddrs == {a \in HeapAddrs : holders[a] \notin {Free, Freed}}
FreeAddrs == HeapAddrs \ LiveAddrs
HeldHandles == {e.h : e \in BagToSet(hostHandles)}

NoCall == [op |-> "none", h |-> 0, obj |-> NoObj, before |-> 0, nh |-> 0]

\* The script wrap(S); wrap(S); unwrap(h1); unwrap(h2); drop S1; drop S2: t is
\* the start of one run of it.
OnScript(t) ==
    /\ Len(t) <= 6
    /\ Len(t) >= 1 => t[1].op = "jptr" /\ t[1].obj \in Objs
    /\ Len(t) >= 2 => t[2].op = "jptr" /\ t[2].obj = t[1].obj
    /\ Len(t) >= 3 => t[3].op = "native" /\ t[3].h = t[1].h
    /\ Len(t) >= 4 => t[4].op = "native" /\ t[4].h = t[2].h
    /\ Len(t) >= 5 => t[5].op = "drop" /\ t[5].obj = t[1].obj
    /\ Len(t) >= 6 => t[6].op = "drop" /\ t[6].obj = t[1].obj

\* The longest end of the calls made so far that is the start of a run.
Observe(t, e) ==
    LET c == Append(t, e)
        k == CHOOSE i \in 0..Len(c) :
                /\ OnScript(SubSeq(c, i + 1, Len(c)))
                /\ \A j \in 0..(i - 1) : ~OnScript(SubSeq(c, j + 1, Len(c)))
    IN  SubSeq(c, k + 1, Len(c))

\* A call is made; a call returns (e is the call's record, completed).
Calls(e) == last' = e /\ scenario' = Observe(scenario, e)
Returns(e) ==
    /\ last' = e
    /\ scenario' = IF scenario = <<>> THEN scenario
                   ELSE [scenario EXCEPT ![Len(scenario)] = e]
Other == last' = NoCall /\ scenario' = <<>>
CountOf(o) == IF o \in Objs THEN useCount[o] ELSE 0

RECURSIVE SumRefs(_, _)
SumRefs(f, n) == IF n = 0 THEN 0 ELSE f[n] + SumRefs(f, n - 1)
TotalReturned == SumRefs(returnedRefs, NumObjs)

Init ==
    /\ useCount = [o \in Objs |-> 1]
    /\ destroyed = [o \in Objs |-> FALSE]
    /\ nativeRefs = [o \in Objs |-> 1]
    /\ returnedRefs = [o \in Objs |-> 0]
    /\ holders = [a \in HeapAddrs |-> Free]
    /\ hostHandles = EmptyBag
    /\ pc = "idle"
    /\ shared_portal = NoObj
    /\ native_portal = 0
    /\ ptr = 0
    /\ persistentPortal = 0
    /\ fault = FALSE
    /\ misused = FALSE
    /\ last = NoCall
    /\ scenario = <<>>

Idle == pc = "idle"

\* ------------------------------------------------------ PortalScene::jptr
\* The call: the by-value parameter shared_portal is copy-constructed from a
\* shared_ptr the engine or a caller of native holds (or from an empty one:
\* nothing checks it).
\* A call made when operator new has no block left does not return (the
\* allocation failure ends the process), so it is left out.
JptrCall(o) ==
    /\ Idle
    /\ FreeAddrs # {}
    /\ o \in Objs => nativeRefs[o] + returnedRefs[o] > 0
    /\ useCount' = CopyRef(useCount, o)
    /\ shared_portal' = o
    /\ pc' = "jptr_new"
    /\ Calls([op |-> "jptr", h |-> Pending, obj |-> o, before |-> CountOf(o),
              nh |-> Cardinality(LiveAddrs)])
    /\ UNCHANGED <<destroyed, nativeRefs, returnedRefs, holders, hostHandles,
                   native_portal, ptr, persistentPortal, fault, misused>>

\* A holder placed in one fixed block instead of a fresh allocation.
JptrNewStatic ==
    /\ pc = "jptr_new"
    /\ LET a == CHOOSE x \in HeapAddrs : \A y \in HeapAddrs : x <= y IN
        /\ holders' = [holders EXCEPT ![a] = shared_portal]
        /\ native_portal' = a
    /\ useCount' = CopyRef(useCount, shared_portal)
    /\ pc' = "jptr_ret"
    /\ UNCHANGED <<destroyed, nativeRefs, returnedRefs, hostHandles,
                   shared_portal, ptr, persistentPortal, fault, misused,
                   last, scenario>>

\* A holder that keeps the object without a reference of its own.
JptrNewNoCopy ==
    /\ pc = "jptr_new"
    /\ \E a \in FreeAddrs :
        /\ holders' = [holders EXCEPT ![a] = shared_portal]
        /\ native_portal' = a
    /\ pc' = "jptr_ret"
    /\ UNCHANGED <<useCount, destroyed, nativeRefs, returnedRefs, hostHandles,
                   shared_portal, ptr, persistentPortal, fault, misused,
                   last, scenario>>

\* new PersistentRef<VROPortal>(shared_portal): a fresh block, whose
\* PersistentRef keeps a copy of shared_portal.
JptrNew ==
    /\ pc = "jptr_new"
    /\ \E a \in FreeAddrs :
        /\ holders' = [holders EXCEPT ![a] = shared_portal]
        /\ native_portal' = a
    /\ useCount' = PersistentRefCtor(useCount, shared_portal)
    /\ pc' = "jptr_ret"
    /\ UNCHANGED <<destroyed, nativeRefs, returnedRefs, hostHandles,
                   shared_portal, ptr, persistentPortal, fault, misused,
                   last, scenario>>

\* return reinterpret_cast<intptr_t>(native_portal); the parameter
\* shared_portal is destroyed as the call ends, and the host keeps the handle.
JptrReturn ==
    /\ pc = "jptr_ret"
    /\ LET h == ToRef(ToIntPtr(native_portal)) IN
        /\ hostHandles' = hostHandles (+) SetToBag({[h |-> h, obj |-> shared_portal]})
        /\ Returns([last EXCEPT !.h = h])
    /\ useCount' = DropRef(useCount, shared_portal)
    /\ destroyed' = Deleted(destroyed, useCount', shared_portal)
    /\ shared_portal' = NoObj
    /\ pc' = "idle"
    /\ native_portal' = 0
    /\ UNCHANGED <<nativeRefs, returnedRefs, holders, ptr, persistentPortal,
                   fault, misused>>

\* ---------------------------------------------------- PortalScene::native
\* The call and the cast: the host passes any value it likes.
NativeCall(h) ==
    /\ Idle
    /\ TotalReturned < MaxReturned
    /\ ptr' = h
    /\ persistentPortal' = FromRef(h)
    /\ misused' = (misused \/ h \notin HeldHandles)
    /\ pc' = "native_get"
    /\ Calls([op |-> "native", h |-> h, obj |-> NoObj, before |-> 0,
              nh |-> Cardinality(LiveAddrs)])
    /\ UNCHANGED <<useCount, destroyed, nativeRefs, returnedRefs, holders,
                   hostHandles, shared_portal, native_portal, fault>>

\* A get() that moves the shared_ptr out of the holder instead of copying it.
NativeGetMove ==
    /\ pc = "native_get"
    /\ persistentPortal \in LiveAddrs
    /\ LET o == holders[persistentPortal] IN
        /\ holders' = [holders EXCEPT ![persistentPortal] = NoObj]
        /\ returnedRefs' = IF o \in Objs THEN [returnedRefs EXCEPT ![o] = @ + 1]
                           ELSE returnedRefs
        /\ Returns([last EXCEPT !.obj = o, !.before = CountOf(o)])
    /\ pc' = "idle"
    /\ ptr' = 0
    /\ persistentPortal' = 0
    /\ UNCHANGED <<useCount, destroyed, nativeRefs, hostHandles, shared_portal,
                   native_portal, fault, misused>>

\* return persistentPortal->get(): on a live PersistentRef, a copy of the
\* shared_ptr it keeps.
NativeGet ==
    /\ pc = "native_get"
    /\ persistentPortal \in LiveAddrs
    /\ LET o == PersistentRefGet(holders, persistentPortal) IN
        /\ useCount' = CopyRef(useCount, o)
        /\ returnedRefs' = IF o \in Objs THEN [returnedRefs EXCEPT ![o] = @ + 1]
                           ELSE returnedRefs
        /\ Returns([last EXCEPT !.obj = o, !.before = CountOf(o)])
    /\ pc' = "idle"
    /\ ptr' = 0
    /\ persistentPortal' = 0
    /\ UNCHANGED <<destroyed, nativeRefs, holders, hostHandles, shared_portal,
                   native_portal, fault, misused>>

\* persistentPortal->get() on memory that holds no PersistentRef (a released,
\* forged or zero handle) is undefined: the read may find the bits of any
\* shared_ptr, or of none, and the call may return them as if nothing had
\* happened, or the process may die there. No error is reported either way;
\* what the program does after it is not defined, and the model stops.
NativeGetInvalid(r) ==
    /\ pc = "native_get"
    /\ persistentPortal \notin LiveAddrs
    /\ fault' = TRUE
    /\ IF r \in Objs /\ ~destroyed[r]
       THEN /\ useCount' = CopyRef(useCount, r)
            /\ returnedRefs' = [returnedRefs EXCEPT ![r] = @ + 1]
       ELSE UNCHANGED <<useCount, returnedRefs>>
    /\ Returns([last EXCEPT !.obj = r, !.before = CountOf(r)])
    /\ pc' = "undefined"
    /\ UNCHANGED <<destroyed, nativeRefs, holders, hostHandles, shared_portal,
                   native_portal, ptr, persistentPortal, misused>>

\* ------------------------------------------------ the callers' operations
\* The release collaborator: deletes the PersistentRef of a handle the host
\* holds; its shared_ptr member is destroyed with it.
Release(e) ==
    /\ Idle
    /\ LET a == FromRef(e.h) IN
        /\ a \in LiveAddrs
        /\ holders' = [holders EXCEPT ![a] = Freed]
        /\ useCount' = DropRef(useCount, holders[a])
        /\ destroyed' = Deleted(destroyed, useCount', holders[a])
    /\ hostHandles' = hostHandles (-) SetToBag({e})
    /\ last' = [op |-> "release", h |-> e.h, obj |-> holders[FromRef(e.h)],
                before |-> CountOf(holders[FromRef(e.h)]),
                nh |-> Cardinality(LiveAddrs)]
    /\ scenario' = <<>>
    /\ UNCHANGED <<nativeRefs, returnedRefs, pc, shared_portal, native_portal,
                   ptr, persistentPortal, fault, misused>>

\* The engine drops one of its references (every object starts with one).
DropNative(o) ==
    /\ Idle
    /\ nativeRefs[o] > 0
    /\ nativeRefs' = [nativeRefs EXCEPT ![o] = @ - 1]
    /\ useCount' = DropRef(useCount, o)
    /\ destroyed' = Deleted(destroyed, useCount', o)
    /\ Other
    /\ UNCHANGED <<returnedRefs, holders, hostHandles, pc, shared_portal,
                   native_portal, ptr, persistentPortal, fault, misused>>

\* A caller of native drops the reference it was returned.
DropReturned(o) ==
    /\ Idle
    /\ returnedRefs[o] > 0
    /\ returnedRefs' = [returnedRefs EXCEPT ![o] = @ - 1]
    /\ useCount' = DropRef(useCount, o)
    /\ destroyed' = Deleted(destroyed, useCount', o)
    /\ last' = IF last.op = "native" /\ last.obj = o
               THEN [last EXCEPT !.op = "dropped"] ELSE NoCall
    /\ scenario' = Observe(scenario, [op |-> "drop", h |-> 0, obj |-> o,
                                      before |-> useCount[o], nh |-> 0])
    /\ UNCHANGED <<nativeRefs, holders, hostHandles, pc, shared_portal,
                   native_portal, ptr, persistentPortal, fault, misused>>

Next ==
    \/ \E o \in Objs \cup {NoObj} : JptrCall(o)
    \/ JptrNew
    \/ JptrReturn
    \/ \E h \in HandleInputs : NativeCall(h)
    \/ NativeGet
    \/ \E r \in Objs \cup {NoObj} : NativeGetInvalid(r)
    \/ \E e \in BagToSet(hostHandles) : Release(e)
    \/ \E o \in Objs : DropNative(o)
    \/ \E o \in Objs : DropReturned(o)

Spec == Init /\ [][Next]_vars

TypeOK ==
    /\ useCount \in [Objs -> 0..(NumSlots + MaxReturned + 2)]
    /\ \A a \in HeapAddrs : holders[a] \in Objs \cup {NoObj, Free, Freed}
    /\ BagCardinality(hostHandles) <= NumSlots

\* ------------------------------------------------------------- properties
Held == BagToSet(hostHandles)
HandleOf(a) == ToRef(ToIntPtr(a))
HoldersOf(o) == Cardinality({a \in HeapAddrs : holders[a] = o})
ParamOf(o) == IF pc \in {"jptr_new", "jptr_ret"} /\ shared_portal = o THEN 1 ELSE 0
Returned == pc # "native_get"
PlusOne(f, o) == IF o \in Objs THEN [f EXCEPT ![o] = @ + 1] ELSE f

\* C1: a completed native(h), for a handle h the host holds, returns a
\* reference to the object h was wrapped from, whatever was called before.
C1_RoundTrip ==
    (last.op = "native" /\ Returned) =>
        \A e \in Held : e.h = last.h => (pc = "idle" /\ last.obj = e.obj)

C1_Witness ==
    /\ pc = "idle"
    /\ last.op = "native"
    /\ last.obj \in Objs
    /\ last.h < 0
    /\ \E e \in Held : e.h = last.h /\ e.obj = last.obj
    /\ \E e \in Held : e.h # last.h

\* C2: the handles the host holds are pairwise distinct and are the handles
\* of distinct live holders, whether wrapped from one object or from two.
C2_DistinctHandles ==
    /\ BagCardinality(hostHandles) = Cardinality(HeldHandles)
    /\ \A a, b \in LiveAddrs : a # b => HandleOf(a) # HandleOf(b)
    /\ pc = "idle" => HeldHandles = {HandleOf(a) : a \in LiveAddrs}

C2_Witness ==
    /\ pc = "idle"
    /\ \E e1, e2 \in Held :
        /\ e1.h # e2.h
        /\ e1.obj \in Objs /\ e2.obj \in Objs /\ e1.obj # e2.obj

\* C3: a completed jptr(S) has created exactly one holder, which holds S, and
\* has raised use_count(S) by exactly one; two in a row raise it by two and
\* give two handles, each with its own holder; and every holder that has not
\* been released accounts for one unit of use_count.
C3_WrapAddsOne ==
    /\ (pc = "idle" /\ last.op = "jptr") =>
        /\ Cardinality(LiveAddrs) = last.nh + 1
        /\ FromRef(last.h) \in LiveAddrs
        /\ holders[FromRef(last.h)] = last.obj
        /\ [h |-> last.h, obj |-> last.obj] \in Held
        /\ last.obj \in Objs => useCount[last.obj] = last.before + 1
    /\ (pc = "idle" /\ Len(scenario) = 2) =>
        /\ useCount[scenario[1].obj] = scenario[1].before + 2
        /\ scenario[1].h # scenario[2].h
        /\ \A i \in 1..2 : holders[FromRef(scenario[i].h)] = scenario[1].obj
    /\ \A o \in Objs :
        useCount[o] = nativeRefs[o] + returnedRefs[o] + HoldersOf(o) + ParamOf(o)

C3_Witness ==
    /\ pc = "idle"
    /\ Len(scenario) = 2
    /\ last.op = "jptr"
    /\ useCount[last.obj] = scenario[1].before + 2

\* C4: an object with a handle the host holds is not destroyed and has a
\* use_count of at least one, also when no other reference to it is left.
C4_HandleKeepsAlive ==
    \A e \in Held : e.obj \in Objs => ~destroyed[e.obj] /\ useCount[e.obj] >= 1

C4_Witness ==
    \E e \in Held :
        /\ e.obj \in Objs
        /\ pc = "idle"
        /\ nativeRefs[e.obj] = 0
        /\ returnedRefs[e.obj] = 0
        /\ last.op = "dropped"
        /\ ~destroyed[e.obj]

\* C5: after native(h) and the drop of the reference it returned, the holder
\* of h is still there and holds the same object, which is not destroyed,
\* use_count is what it was before the call, and the host holds h as before.
C5_UnwrapThenDrop ==
    (last.op = "dropped" /\ last.obj \in Objs) =>
        /\ FromRef(last.h) \in LiveAddrs
        /\ holders[FromRef(last.h)] = last.obj
        /\ [h |-> last.h, obj |-> last.obj] \in Held
        /\ ~destroyed[last.obj]
        /\ useCount[last.obj] = last.before

C5_Witness ==
    /\ last.op = "dropped"
    /\ last.obj \in Objs
    /\ holders[FromRef(last.h)] = last.obj
    /\ useCount[last.obj] = last.before

\* C6: releasing a handle the host holds lowers use_count of its object by
\* exactly one and frees the holder; an object is destroyed exactly when its
\* use_count is zero.
C6_ReleaseDropsOne ==
    /\ (last.op = "release" /\ last.obj \in Objs) =>
        /\ useCount[last.obj] = last.before - 1
        /\ Cardinality(LiveAddrs) = last.nh - 1
        /\ holders[FromRef(last.h)] = Freed
    /\ \A o \in Objs : destroyed[o] <=> useCount[o] = 0

C6_Witness ==
    /\ last.op = "release"
    /\ last.obj \in Objs
    /\ last.before = 1
    /\ destroyed[last.obj]
    /\ \E o \in Objs : ~destroyed[o] /\ HoldersOf(o) = 1 /\ useCount[o] = 1

\* C7, as stated: after wrap(S) -> h1; wrap(S) -> h2; unwrap(h1) -> S1;
\* unwrap(h2) -> S2 the handles differ, S1 and S2 are S, and use_count(S) is
\* two above its value before the first wrap.
C7_Original ==
    (pc = "idle" /\ Len(scenario) = 4) =>
        /\ scenario[1].h # scenario[2].h
        /\ scenario[3].obj = scenario[1].obj
        /\ scenario[4].obj = scenario[1].obj
        /\ useCount[scenario[1].obj] = scenario[1].before + 2

\* C7, amended: after the four calls the handles differ, S1 and S2 are S, and
\* use_count(S) is four above its value before the first wrap (two holders and
\* the two returned references S1 and S2); it is two above once S1 and S2 have
\* been dropped.
C7_Scenario ==
    /\ (pc = "idle" /\ Len(scenario) = 4) =>
        /\ scenario[1].h # scenario[2].h
        /\ scenario[3].obj = scenario[1].obj
        /\ scenario[4].obj = scenario[1].obj
        /\ useCount[scenario[1].obj] = scenario[1].before + 4
    /\ Len(scenario) = 6 =>
        /\ useCount[scenario[1].obj] = scenario[1].before + 2
        /\ \A i \in 1..2 : holders[FromRef(scenario[i].h)] = scenario[1].obj

C7_Witness ==
    /\ pc = "idle"
    /\ Len(scenario) = 4
    /\ scenario[3].obj = scenario[1].obj
    /\ scenario[4].obj = scenario[1].obj
    /\ returnedRefs[scenario[1].obj] >= 2

\* C8: the step of native(h) that reads the holder, for a handle h the host
\* holds, raises use_count of h's object by exactly one and hands out one
\* reference to it; no other count changes, no holder is created, destroyed
\* or changed, the host's handles are the same, nothing is destroyed; and the
\* call itself (the cast) changes none of these.
C8_UnwrapFrame ==
    [][/\ (pc = "native_get" /\ ptr \in HeldHandles) =>
            \A e \in Held : e.h = ptr =>
                /\ pc' = "idle"
                /\ useCount' = PlusOne(useCount, e.obj)
                /\ returnedRefs' = PlusOne(returnedRefs, e.obj)
                /\ holders' = holders
                /\ hostHandles' = hostHandles
                /\ destroyed' = destroyed
                /\ nativeRefs' = nativeRefs
       /\ pc' = "native_get" =>
            UNCHANGED <<useCount, returnedRefs, holders, hostHandles, destroyed,
                        nativeRefs>>
      ]_vars

C8_Witness ==
    /\ pc = "idle"
    /\ last.op = "native"
    /\ last.obj \in Objs
    /\ last.h \in HeldHandles
    /\ useCount[last.obj] = last.before + 1
    /\ Cardinality(LiveAddrs) = last.nh

BridgeStep == pc # "idle" \/ pc' # "idle"

\* C10, as stated: no step of jptr or native lowers a use_count.
C10_Original ==
    [][BridgeStep => \A o \in Objs : useCount'[o] >= useCount[o]]_vars

\* C10, amended: no step of native lowers a use_count; the only step of jptr
\* that does is its return, which destroys the by-value parameter
\* shared_portal and so takes back the increment made when the parameter was
\* copied, leaving use_count one above its value before the call; no step of
\* either destroys an object.
C10_NetIncrementOnly ==
    [][BridgeStep =>
        /\ destroyed' = destroyed
        /\ \A o \in Objs :
            \/ useCount'[o] >= useCount[o]
            \/ /\ pc = "jptr_ret" /\ pc' = "idle"
               /\ o = shared_portal
               /\ useCount'[o] = useCount[o] - 1
               /\ useCount'[o] = last.before + 1
      ]_vars

C10_Witness ==
    /\ pc = "jptr_ret"
    /\ shared_portal \in Objs
    /\ useCount[shared_portal] = last.before + 2
====
